---- MODULE Spec2Model ----
(***************************************************************************)
(* The data normalisation pipeline of scripts/process_data.py:             *)
(*   main = load_energy ; build_eu_us_energy ; write_outputs               *)
(* A data frame is a column list plus a sequence of rows; every row        *)
(* carries its pandas index label and a function from column name to cell. *)
(* Numbers are integers (tenths of the CSV's decimal values).              *)
(***************************************************************************)
EXTENDS Integers, Sequences, FiniteSets, TLC

\* ------------------------------------------------------------- bounds
\* Largest number of data lines of a raw file with a complete header.
MaxRows == 3
\* The clock readings datetime.utcnow() may return are 1..MaxClock.
MaxClock == 2

\* ------------------------------------------------------------- cells
\* NaN is the in-memory missing value; EmptyField is the empty CSV field;
\* Malformed is a field whose text is no numeral (such as "abc").
NaN == -1
EmptyField == -2
Malformed == -3

\* pandas' parser: an empty field becomes NaN, a numeral its number; text
\* that is no numeral is kept as it stands (its column is then of dtype
\* object, no cell is coerced).
ParseCell(c) == IF c = EmptyField THEN NaN ELSE c

\* mutant of FormatCell: missing values written as 0 (fillna(0)).
FormatCellZero(v) == IF v = NaN THEN 0 ELSE v

\* DataFrame.to_csv with the default na_rep='': NaN becomes an empty field.
FormatCell(v) == IF v = NaN THEN EmptyField ELSE v

\* ------------------------------------------------------------- columns
expected_cols ==
    << "country", "year", "nuclear_share_energy", "renewables_share_energy",
       "fossil_share_energy", "low_carbon_share_energy",
       "primary_energy_consumption" >>

\* mutant of keep_cols: the entity name is kept next to the region.
keep_cols_with_country ==
    << "region", "country", "year", "nuclear_share_energy",
       "renewables_share_energy", "fossil_share_energy",
       "low_carbon_share_energy", "primary_energy_consumption" >>

keep_cols ==
    << "region", "year", "nuclear_share_energy", "renewables_share_energy",
       "fossil_share_energy", "low_carbon_share_energy",
       "primary_energy_consumption" >>

NumericCols ==
    { "nuclear_share_energy", "renewables_share_energy", "fossil_share_energy",
      "low_carbon_share_energy", "primary_energy_consumption" }

\* Columns read_csv infers as text; every other column is numeric.
TextCols == { "country", "region" }

\* Columns a raw file may carry beyond the required ones.
ExtraCols == { "co2_emissions", "region" }

\* Every column name of the model, in file order.
AllCols == expected_cols \o << "co2_emissions", "region" >>

Range(s) == { s[i] : i \in 1..Len(s) }
IndexOf(s, x) == CHOOSE i \in 1..Len(s) : s[i] = x

\* ------------------------------------------------------------- aliases
EU_NAMES == << "European Union (27)", "European Union" >>
US_NAMES == << "United States" >>

\* Entity names a raw line may carry; "France" stands for every entity
\* that is no alias of either region.
Countries == { "European Union (27)", "European Union", "United States", "France" }

\* ------------------------------------------------------------- strings
\* Python compares str by code point; these are the code points of the
\* strings the region column can hold.
CodePoints(s) ==
    CASE s = "EU27" -> << 69, 85, 50, 55 >>
      [] s = "US" -> << 85, 83 >>
      [] s = "European Union (27)" ->
            << 69, 117, 114, 111, 112, 101, 97, 110, 32, 85, 110, 105, 111,
               110, 32, 40, 50, 55, 41 >>
      [] s = "European Union" ->
            << 69, 117, 114, 111, 112, 101, 97, 110, 32, 85, 110, 105, 111, 110 >>
      [] s = "United States" ->
            << 85, 110, 105, 116, 101, 100, 32, 83, 116, 97, 116, 101, 115 >>

RECURSIVE SeqLess(_, _)
SeqLess(a, b) ==
    IF b = << >> THEN FALSE
    ELSE IF a = << >> THEN TRUE
    ELSE IF Head(a) # Head(b) THEN Head(a) < Head(b)
    ELSE SeqLess(Tail(a), Tail(b))

StrLess(a, b) == SeqLess(CodePoints(a), CodePoints(b))

\* ------------------------------------------------------------- data frames
NoFrame == [columns |-> << >>, rows |-> << >>]

\* The spelling a name has once trimmed and compared without case.
Folded(name) ==
    CASE name \in {"united states", " United States"} -> "United States"
      [] name = "european union (27)" -> "European Union (27)"
      [] name = "European Union " -> "European Union"
      [] OTHER -> name

\* mutant of RowsWhereCountry: names are trimmed and compared without case.
RowsWhereCountryFolded(df, name) ==
    LET Match(r) == Folded(r.data["country"]) = name IN SelectSeq(df.rows, Match)

\* df[df["country"] == name]: the matching rows, index labels kept.
RowsWhereCountry(df, name) ==
    LET Match(r) == r.data["country"] = name IN SelectSeq(df.rows, Match)

\* set(df["country"])
CountrySet(df) == { df.rows[i].data["country"] : i \in 1..Len(df.rows) }

\* df[cols].copy(): the listed columns, in the listed order.
Project(df, cols) ==
    [columns |-> cols,
     rows |-> [i \in 1..Len(df.rows) |->
                 [index |-> df.rows[i].index,
                  data |-> [c \in Range(cols) |-> df.rows[i].data[c]]]]]

\* df["region"] = code
AssignRegion(df, code) ==
    [columns |-> df.columns,
     rows |-> [i \in 1..Len(df.rows) |->
                 [index |-> df.rows[i].index,
                  data |-> [df.rows[i].data EXCEPT !["region"] = code]]]]

\* pd.concat([a, b], ignore_index=True): rows of a then of b, relabelled 0..n-1.
Concat(a, b) ==
    LET all == a.rows \o b.rows
    IN [columns |-> a.columns,
        rows |-> [i \in 1..Len(all) |-> [index |-> i - 1, data |-> all[i].data]]]

\* The sort key of sort_values(["region", "year"]): region by code point,
\* then year ascending with NaN last (na_position='last').
YearLess(x, y) == x # NaN /\ (y = NaN \/ x < y)

KeyLess(r, s) ==
    \/ StrLess(r.data["region"], s.data["region"])
    \/ /\ r.data["region"] = s.data["region"]
       /\ YearLess(r.data["year"], s.data["year"])

\* Stable insertion: r goes after every row that does not sort after it.
RECURSIVE InsertSorted(_, _)
InsertSorted(sorted, r) ==
    IF sorted = << >> THEN << r >>
    ELSE IF KeyLess(r, Head(sorted)) THEN << r >> \o sorted
    ELSE << Head(sorted) >> \o InsertSorted(Tail(sorted), r)

RECURSIVE SortRows(_)
SortRows(rows) ==
    IF rows = << >> THEN << >>
    ELSE InsertSorted(SortRows(SubSeq(rows, 1, Len(rows) - 1)), rows[Len(rows)])

\* mutant of sort_values: the concatenation is returned unsorted.
sort_values_skipped(df) == df

\* combined.sort_values(["region", "year"], inplace=True): a stable
\* multi-key sort; the rows keep their index labels.
sort_values(df) == [columns |-> df.columns, rows |-> SortRows(df.rows)]

\* ------------------------------------------------------------- exceptions
NoError == [type |-> "none", msg |-> "", arg |-> << >>]

MissingColumnsError(missing) ==
    [type |-> "RuntimeError",
     msg |-> "Missing expected columns in energy dataset",
     arg |-> missing]

RegionNotFoundError(names) ==
    [type |-> "RuntimeError",
     msg |-> "None of the region names found in dataset",
     arg |-> names]

InsertError ==
    [type |-> "ValueError", msg |-> "cannot insert region, already exists",
     arg |-> << >>]

OSError(what) == [type |-> "OSError", msg |-> what, arg |-> << >>]

Raise(e) == [ok |-> FALSE, df |-> NoFrame, exc |-> e]
Return(df) == [ok |-> TRUE, df |-> df, exc |-> NoError]

\* ------------------------------------------------------------- load_energy
\* missing = [c for c in expected_cols if c not in df.columns]
MissingCols(df) ==
    LET Absent(c) == c \notin Range(df.columns) IN SelectSeq(expected_cols, Absent)

\* df["country"] on a table that has no such column.
KeyError(col) == [type |-> "KeyError", msg |-> col, arg |-> << >>]

\* mutant of ValidateColumns: the EU lookup is made before the columns are
\* checked, so a table without an EU alias, or without the country column,
\* fails in the lookup.
ValidateColumnsAfterLookup(df) ==
    IF "country" \notin Range(df.columns) THEN Raise(KeyError("country"))
    ELSE IF CountrySet(df) \cap Range(EU_NAMES) = {}
    THEN Raise(RegionNotFoundError(EU_NAMES))
    ELSE IF MissingCols(df) # << >>
    THEN Raise(MissingColumnsError(MissingCols(df)))
    ELSE Return(df)

\* mutant of ValidateColumns: only the first missing column is reported.
ValidateColumnsFirstOnly(df) ==
    IF MissingCols(df) # << >>
    THEN Raise(MissingColumnsError(<< Head(MissingCols(df)) >>))
    ELSE Return(df)

\* load_energy after read_csv: the column-presence check.
ValidateColumns(df) ==
    IF MissingCols(df) # << >>
    THEN Raise(MissingColumnsError(MissingCols(df)))
    ELSE Return(df)

\* pd.read_csv: header to columns, lines to rows labelled 0..n-1,
\* each field parsed.
read_csv(file) ==
    [columns |-> file.header,
     rows |-> [i \in 1..Len(file.lines) |->
                 [index |-> i - 1,
                  data |-> [c \in Range(file.header) |->
                              IF c \in TextCols
                              THEN file.lines[i][IndexOf(file.header, c)]
                              ELSE ParseCell(file.lines[i][IndexOf(file.header, c)])]]]]

\* ------------------------------------------------------------- select_region
\* present = [n for n in names if n in set(df["country"])]
Present(df, names) ==
    LET Found(n) == n \in CountrySet(df) IN SelectSeq(names, Found)

\* region_df.insert(0, "region", region_name)
InsertRegion(rows, columns, region_name) ==
    [columns |-> << "region" >> \o columns,
     rows |-> [i \in 1..Len(rows) |->
                 [index |-> rows[i].index,
                  data |-> [c \in Range(columns) \cup {"region"} |->
                              IF c = "region" THEN region_name
                              ELSE rows[i].data[c]]]]]

\* mutant of select_region: the last present alias wins.
select_region_last(df, names) ==
    IF Present(df, names) = << >> THEN Raise(RegionNotFoundError(names))
    ELSE IF "region" \in Range(df.columns) THEN Raise(InsertError)
    ELSE LET present == Present(df, names)
             region_name == present[Len(present)]
         IN Return(InsertRegion(RowsWhereCountry(df, region_name), df.columns,
                                region_name))

\* mutant of select_region: the rows of every present alias are merged.
select_region_merged(df, names) ==
    IF Present(df, names) = << >> THEN Raise(RegionNotFoundError(names))
    ELSE IF "region" \in Range(df.columns) THEN Raise(InsertError)
    ELSE LET InPresent(r) == r.data["country"] \in Range(Present(df, names))
         IN Return(InsertRegion(SelectSeq(df.rows, InPresent), df.columns,
                                Present(df, names)[1]))

select_region(df, names) ==
    IF Present(df, names) = << >> THEN Raise(RegionNotFoundError(names))
    ELSE IF "region" \in Range(df.columns) THEN Raise(InsertError)
    ELSE LET region_name == Present(df, names)[1]
         IN Return(InsertRegion(RowsWhereCountry(df, region_name), df.columns,
                                region_name))

\* ------------------------------------------------------------- build_eu_us_energy
\* mutant of Relabel: the alias inserted by select_region is left in place.
RelabelSkipped(df, code) == df

\* eu_df["region"] = "EU27" / us_df["region"] = "US"
Relabel(df, code) == AssignRegion(df, code)

\* mutant of build_eu_us_energy: the US is looked up before the EU.
build_us_first(df) ==
    LET eu == select_region(df, EU_NAMES)
        us == select_region(df, US_NAMES)
    IN IF ~us.ok THEN Raise(us.exc)
       ELSE IF ~eu.ok THEN Raise(eu.exc)
       ELSE Return(sort_values(Concat(Relabel(Project(eu.df, keep_cols), "EU27"),
                                      Relabel(Project(us.df, keep_cols), "US"))))

build_eu_us_energy(df) ==
    LET eu == select_region(df, EU_NAMES)
        us == select_region(df, US_NAMES)
    IN IF ~eu.ok THEN Raise(eu.exc)
       ELSE IF ~us.ok THEN Raise(us.exc)
       ELSE Return(sort_values(Concat(Relabel(Project(eu.df, keep_cols), "EU27"),
                                      Relabel(Project(us.df, keep_cols), "US"))))

\* ------------------------------------------------------------- files
NoFile == [exists |-> FALSE, complete |-> TRUE, header |-> << >>, lines |-> << >>]

\* df.to_csv(out_csv, index=False): a header line, then one line per row
\* with the cells in column order; no index column.
to_csv(df) ==
    [exists |-> TRUE, complete |-> TRUE,
     header |-> df.columns,
     lines |-> [i \in 1..Len(df.rows) |->
                  [j \in 1..Len(df.columns) |->
                     IF df.columns[j] \in TextCols
                     THEN df.rows[i].data[df.columns[j]]
                     ELSE FormatCell(df.rows[i].data[df.columns[j]])]]]

\* mutant of WriteMode: the file is opened for appending (mode="a").
WriteModeAppend(old, new) ==
    IF old.exists THEN [new EXCEPT !.lines = old.lines \o new.lines] ELSE new

\* to_csv opens the path with mode "w": what the path held is discarded.
WriteMode(old, new) == new

\* mutant of write_text: an existing file is left as it is.
write_text_keep(old, new) == IF old.exists THEN old ELSE new

\* Path.write_text: the file's content is replaced by the text.
write_text(old, new) == new

\* A write cut short after k data lines.
Truncated(file, k) ==
    [file EXCEPT !.complete = FALSE, !.lines = SubSeq(file.lines, 1, k)]

NoMeta == [exists |-> FALSE, complete |-> TRUE, generated_at |-> << >>,
           sources |-> << >>, notes |-> ""]

\* mutant of meta: the timestamp carries a UTC offset in place of "Z".
meta_offset(now) ==
    [exists |-> TRUE, complete |-> TRUE,
     generated_at |-> << now, "+00:00" >>,
     sources |-> << << "owid_energy", "https://github.com/owid/energy-data" >>,
                    << "owid_co2", "https://github.com/owid/co2-data" >> >>,
     notes |-> "Shares are OWID-provided shares of primary energy. EU is taken from the aggregated European Union entity if present."]

\* json.dumps(meta, indent=2) as written to metadata.json.
meta(now) ==
    [exists |-> TRUE, complete |-> TRUE,
     generated_at |-> << now, "Z" >>,
     sources |-> << << "owid_energy", "https://github.com/owid/energy-data" >>,
                    << "owid_co2", "https://github.com/owid/co2-data" >> >>,
     notes |-> "Shares are OWID-provided shares of primary energy. EU is taken from the aggregated European Union entity if present."]

\* ------------------------------------------------------------- raw inputs
\* The numeric fields of a raw line: measured (the entity's figures, in
\* tenths) or left empty.
Readings == { << 2019, "measured" >>, << 2020, "measured" >>, << 2020, "empty" >> }

Figures(country) ==
    CASE country = "European Union (27)" ->
            [nuclear_share_energy |-> 105, renewables_share_energy |-> 142,
             fossil_share_energy |-> 753, low_carbon_share_energy |-> 247,
             primary_energy_consumption |-> 0]
      [] country = "European Union" ->
            [nuclear_share_energy |-> 110, renewables_share_energy |-> 139,
             fossil_share_energy |-> 751, low_carbon_share_energy |-> 249,
             primary_energy_consumption |-> 170]
      [] country = "United States" ->
            [nuclear_share_energy |-> 83, renewables_share_energy |-> 72,
             fossil_share_energy |-> 845, low_carbon_share_energy |-> 155,
             primary_energy_consumption |-> 260]
      [] OTHER ->
            [nuclear_share_energy |-> 370, renewables_share_energy |-> 0,
             fossil_share_energy |-> 480, low_carbon_share_energy |-> 520,
             primary_energy_consumption |-> 26]

FieldOf(country, reading, c) ==
    CASE c = "country" -> country
      [] c = "year" -> reading[1]
      [] c = "co2_emissions" -> 500
      [] c = "region" -> "Europe"
      [] OTHER -> IF reading[2] = "empty" THEN EmptyField
                  ELSE IF reading[2] = "malformed" /\ c = "nuclear_share_energy"
                       THEN Malformed
                  ELSE Figures(country)[c]

RawLine(header, country, reading) ==
    [j \in 1..Len(header) |-> FieldOf(country, reading, header[j])]

Headers(missing, extras) ==
    LET Kept(c) == c \in (Range(expected_cols) \ missing) \cup extras
    IN SelectSeq(AllCols, Kept)

\* What a raw line may be: an alias entity with any reading, or the other
\* entity, whose figures no step looks at, with one.
LineKinds ==
    ((Countries \ {"France"}) \X Readings) \cup { << "France", << 2020, "measured" >> >> }

Entries(n) == [1..n -> LineKinds]

RawFile(header, entries) ==
    [exists |-> TRUE, complete |-> TRUE, header |-> header,
     lines |-> [i \in 1..Len(entries) |->
                  RawLine(header, entries[i][1], entries[i][2])]]

\* Raw files with every required column: up to MaxRows lines; those
\* shorter than MaxRows with any extras, the longest with none.
CompleteRawFiles ==
    { RawFile(Headers({}, extras), e) :
        extras \in SUBSET ExtraCols, e \in UNION { Entries(n) : n \in 0..MaxRows - 1 } }
    \cup { RawFile(Headers({}, {}), e) : e \in Entries(MaxRows) }

\* Raw files lacking required columns: every non-empty set of them, with
\* one line that resolves no region or none at all.
IncompleteRawFiles ==
    { RawFile(Headers(missing, extras), e) :
        missing \in (SUBSET Range(expected_cols)) \ {{}},
        extras \in SUBSET ExtraCols,
        e \in Entries(0) \cup { << << "France", << 2020, "measured" >> >> >> } }

\* ------------------------------------------------------------- state
VARIABLES
    raw_file,       \* data/raw/owid-energy-data.csv
    processed_dir,  \* whether data/processed exists
    out_csv,        \* data/processed/eu_us_energy.csv
    metadata_json,  \* data/processed/metadata.json
    pc,             \* the statement of main() to run next
    energy,         \* main's local: the loaded frame
    combined,       \* main's local: the normalized frame
    exc,            \* the exception that ended the run, if any
    io,             \* the file-system calls the run has made, in order
    status,         \* the exit status, -1 while running
    calls,          \* the functions the run has called, in order
    before,         \* what data/processed held when the run started
    last_good,      \* what the latest earlier run that returned 0 produced
    data_dir,       \* download_data: whether data/raw exists
    co2_file,       \* download_data: data/raw/owid-co2-data.csv
    dl_pc,          \* download_data: the statement of main() to run next
    dl_i,           \* download_data: the place in DATASETS of the next dataset
    dl_log,         \* download_data: requests made and files written, in order
    dl_status,      \* download_data: the exit status, -1 while running
    an_pc,          \* analysis scripts: whether the regions were derived
    eu_us_data,     \* analysis scripts: the rows kept for the two regions
    reports_dir,    \* generate_pdf_reports: the files under reports/, in order
    rep_pc,         \* generate_pdf_reports: the statement to run next
    rep_loaded,     \* generate_pdf_reports: self.df and self.raw_df, once loaded
    rep_result      \* generate_pdf_reports: what generate_reports returned

download_state == << data_dir, co2_file, dl_pc, dl_i, dl_log, dl_status >>
analysis_state == << an_pc, eu_us_data >>
report_state == << reports_dir, rep_pc, rep_loaded, rep_result >>
process_state == << processed_dir, out_csv, metadata_json, pc, energy, combined,
                    exc, io, status, calls, before, last_good >>

vars == << raw_file, process_state, download_state, analysis_state, report_state >>

NoGood == [ran |-> FALSE, combined |-> NoFrame, csv |-> NoFile, meta |-> NoMeta]

\* main's locals and the run's records at the start of a run.
RunStarts ==
    /\ pc = "load_energy"
    /\ energy = NoFrame
    /\ combined = NoFrame
    /\ exc = NoError
    /\ io = << >>
    /\ status = -1
    /\ calls = << >>
    /\ before = [dir |-> processed_dir, csv |-> out_csv, meta |-> metadata_json]

\* download_data.main at its start.
DownloadStarts ==
    /\ dl_pc = "ensure_dir"
    /\ dl_i = 1
    /\ dl_log = << >>
    /\ dl_status = -1

\* An analysis script at its start: nothing derived yet.
NotDerived == [ok |-> FALSE, df |-> NoFrame, exc |-> NoError]

AnalysisStarts ==
    /\ an_pc = "start"
    /\ eu_us_data = NotDerived

\* PDFReportGenerator once constructed, before generate_reports.
NotLoaded == [df |-> FALSE, raw_df |-> FALSE]

ReportStarts ==
    /\ rep_pc = "load_data"
    /\ rep_loaded = NotLoaded
    /\ rep_result = "none"

\* The other scripts have not been started; data/raw holds what the raw
\* file says, reports/ does not exist.
OtherScriptsStart ==
    /\ data_dir = raw_file.exists
    /\ co2_file = NoFile
    /\ DownloadStarts
    /\ AnalysisStarts
    /\ reports_dir = [exists |-> FALSE, files |-> << >>]
    /\ ReportStarts

Init ==
    /\ raw_file \in CompleteRawFiles \cup IncompleteRawFiles \cup {NoFile}
    /\ processed_dir = FALSE
    /\ out_csv = NoFile
    /\ metadata_json = NoMeta
    /\ last_good = NoGood
    /\ RunStarts
    /\ OtherScriptsStart

\* mutant of Abort: the exception is caught at top level and 0 is returned.
AbortZero(e) ==
    /\ exc' = e
    /\ pc' = "exited"
    /\ status' = 0

\* mutant of Abort: main catches the exception and goes on to write_outputs.
AbortCaught(e) ==
    /\ exc' = e
    /\ pc' = "ensure_dirs"
    /\ status' = 1

\* An exception leaves main: the interpreter prints it and exits with 1.
Abort(e) ==
    /\ exc' = e
    /\ pc' = "exited"
    /\ status' = 1

\* mutant of LoadEnergy: a raw file that cannot be read is taken as an empty
\* table with the expected columns.
LoadEnergyDefault ==
    /\ pc = "load_energy"
    /\ io' = Append(io, "read owid-energy-data.csv")
    /\ calls' = Append(calls, "load_energy")
    /\ IF ~raw_file.exists
       THEN /\ energy' = [columns |-> expected_cols, rows |-> << >>]
            /\ pc' = "build_eu_us_energy"
            /\ UNCHANGED << exc, status >>
       ELSE LET r == ValidateColumns(read_csv(raw_file))
            IN IF r.ok
               THEN /\ energy' = r.df
                    /\ pc' = "build_eu_us_energy"
                    /\ UNCHANGED << exc, status >>
               ELSE /\ Abort(r.exc)
                    /\ UNCHANGED energy
    /\ UNCHANGED << raw_file, processed_dir, out_csv, metadata_json, combined,
                    before, last_good >>
    /\ UNCHANGED << download_state, analysis_state, report_state >>

\* mutant of LoadEnergy: the loader creates data/processed as it goes.
LoadEnergyMkdir ==
    /\ pc = "load_energy"
    /\ io' = Append(io, "read owid-energy-data.csv")
    /\ calls' = Append(calls, "load_energy")
    /\ processed_dir' = TRUE
    /\ IF ~raw_file.exists
       THEN /\ Abort(OSError("read owid-energy-data.csv"))
            /\ UNCHANGED energy
       ELSE LET r == ValidateColumns(read_csv(raw_file))
            IN IF r.ok
               THEN /\ energy' = r.df
                    /\ pc' = "build_eu_us_energy"
                    /\ UNCHANGED << exc, status >>
               ELSE /\ Abort(r.exc)
                    /\ UNCHANGED energy
    /\ UNCHANGED << raw_file, out_csv, metadata_json, combined, before, last_good >>
    /\ UNCHANGED << download_state, analysis_state, report_state >>

\* main: energy = load_energy()
LoadEnergy ==
    /\ pc = "load_energy"
    /\ io' = Append(io, "read owid-energy-data.csv")
    /\ calls' = Append(calls, "load_energy")
    /\ IF ~raw_file.exists
       THEN /\ Abort(OSError("read owid-energy-data.csv"))
            /\ UNCHANGED energy
       ELSE LET r == ValidateColumns(read_csv(raw_file))
            IN IF r.ok
               THEN /\ energy' = r.df
                    /\ pc' = "build_eu_us_energy"
                    /\ UNCHANGED << exc, status >>
               ELSE /\ Abort(r.exc)
                    /\ UNCHANGED energy
    /\ UNCHANGED << raw_file, processed_dir, out_csv, metadata_json, combined,
                    before, last_good >>
    /\ UNCHANGED << download_state, analysis_state, report_state >>

\* The select_region calls build_eu_us_energy makes: the US lookup runs
\* only when the EU lookup has returned.
Lookups(df) ==
    IF select_region(df, EU_NAMES).ok
    THEN << "select_region EU", "select_region US" >>
    ELSE << "select_region EU" >>

\* mutant of BuildEuUsEnergy: the reducer works on its argument, which
\* main's energy names, so that the table it returns is the one it was given.
BuildEuUsEnergyInPlace ==
    /\ pc = "build_eu_us_energy"
    /\ calls' = calls \o << "build_eu_us_energy" >> \o Lookups(energy)
    /\ LET r == build_eu_us_energy(energy)
       IN IF r.ok
          THEN /\ combined' = r.df
               /\ energy' = r.df
               /\ pc' = "ensure_dirs"
               /\ UNCHANGED << exc, status >>
          ELSE /\ Abort(r.exc)
               /\ UNCHANGED << combined, energy >>
    /\ UNCHANGED << raw_file, processed_dir, out_csv, metadata_json, io,
                    before, last_good >>
    /\ UNCHANGED << download_state, analysis_state, report_state >>

\* main: combined = build_eu_us_energy(energy)
BuildEuUsEnergy ==
    /\ pc = "build_eu_us_energy"
    /\ calls' = calls \o << "build_eu_us_energy" >> \o Lookups(energy)
    /\ LET r == build_eu_us_energy(energy)
       IN IF r.ok
          THEN /\ combined' = r.df
               /\ pc' = "ensure_dirs"
               /\ UNCHANGED << exc, status >>
          ELSE /\ Abort(r.exc)
               /\ UNCHANGED combined
    /\ UNCHANGED << raw_file, processed_dir, out_csv, metadata_json, energy, io,
                    before, last_good >>
    /\ UNCHANGED << download_state, analysis_state, report_state >>

\* mutant of EnsureDirs: write_outputs writes the metadata right after
\* ensure_dirs() and never the table.
EnsureDirsThenMeta ==
    /\ pc = "ensure_dirs"
    /\ io' = Append(io, "mkdir processed")
    /\ calls' = calls \o << "write_outputs", "ensure_dirs" >>
    /\ \/ /\ processed_dir' = TRUE
          /\ pc' = "write_text"
          /\ UNCHANGED << exc, status >>
       \/ /\ ~processed_dir
          /\ Abort(OSError("mkdir processed"))
          /\ UNCHANGED processed_dir
    /\ UNCHANGED << raw_file, out_csv, metadata_json, energy, combined, before,
                    last_good >>
    /\ UNCHANGED << download_state, analysis_state, report_state >>

\* write_outputs: ensure_dirs(); mkdir(parents=True, exist_ok=True) creates
\* the directory or, when it cannot, raises.
EnsureDirs ==
    /\ pc = "ensure_dirs"
    /\ io' = Append(io, "mkdir processed")
    /\ calls' = calls \o << "write_outputs", "ensure_dirs" >>
    /\ \/ /\ processed_dir' = TRUE
          /\ pc' = "to_csv"
          /\ UNCHANGED << exc, status >>
       \/ /\ ~processed_dir
          /\ Abort(OSError("mkdir processed"))
          /\ UNCHANGED processed_dir
    /\ UNCHANGED << raw_file, out_csv, metadata_json, energy, combined, before,
                    last_good >>
    /\ UNCHANGED << download_state, analysis_state, report_state >>

\* write_outputs: df.to_csv(out_csv, index=False). The file is opened for
\* writing (truncating it) and filled; the open can fail and the write can
\* be cut short.
ToCsv ==
    /\ pc = "to_csv"
    /\ io' = Append(io, "write eu_us_energy.csv")
    /\ \/ /\ out_csv' = WriteMode(out_csv, to_csv(combined))
          /\ pc' = "write_text"
          /\ UNCHANGED << exc, status >>
       \/ /\ Abort(OSError("open eu_us_energy.csv"))
          /\ UNCHANGED out_csv
       \/ \E k \in 0..Len(combined.rows) - 1 :
             /\ out_csv' = Truncated(WriteMode(out_csv, to_csv(combined)), k)
             /\ Abort(OSError("write eu_us_energy.csv"))
    /\ UNCHANGED << raw_file, processed_dir, metadata_json, energy, combined,
                    calls, before, last_good >>
    /\ UNCHANGED << download_state, analysis_state, report_state >>

\* write_outputs: meta = {...utcnow()...}; write_text(json.dumps(meta)).
WriteText ==
    /\ pc = "write_text"
    /\ io' = Append(io, "write metadata.json")
    /\ \E now \in 1..MaxClock :
          \/ /\ metadata_json' = write_text(metadata_json, meta(now))
             /\ pc' = "return"
             /\ UNCHANGED << exc, status >>
          \/ /\ Abort(OSError("open metadata.json"))
             /\ UNCHANGED metadata_json
          \/ /\ metadata_json' =
                   [write_text(metadata_json, meta(now)) EXCEPT !.complete = FALSE]
             /\ Abort(OSError("write metadata.json"))
    /\ UNCHANGED << raw_file, processed_dir, out_csv, energy, combined, calls,
                    before, last_good >>
    /\ UNCHANGED << download_state, analysis_state, report_state >>

\* main: print(...); return 0
ReturnZero ==
    /\ pc = "return"
    /\ pc' = "exited"
    /\ status' = 0
    /\ UNCHANGED << raw_file, processed_dir, out_csv, metadata_json, energy,
                    combined, exc, io, calls, before, last_good >>
    /\ UNCHANGED << download_state, analysis_state, report_state >>

Next ==
    \/ LoadEnergy
    \/ BuildEuUsEnergy
    \/ EnsureDirs
    \/ ToCsv
    \/ WriteText
    \/ ReturnZero

Spec == Init /\ [][Next]_vars

\* ------------------------------------------------------------- repeated runs
\* What an earlier run over another raw file has left in data/processed.
StaleCsv ==
    [exists |-> TRUE, complete |-> TRUE, header |-> keep_cols,
     lines |-> << << "US", 2018, 80, 70, 850, 150, 255 >> >>]
StaleMeta == meta(0)

\* Raw files for repeated runs: lines that tie on (country, year) with
\* different figures, no extra column; and headers lacking columns.
RerunLineKinds ==
    { << "European Union (27)", << 2020, "measured" >> >>,
      << "European Union (27)", << 2020, "empty" >> >>,
      << "United States", << 2020, "measured" >> >> }

RerunRawFiles ==
    { RawFile(Headers({}, {}), e) :
        e \in UNION { [1..n -> RerunLineKinds] : n \in 0..MaxRows } }
    \cup { RawFile(Headers(missing, {}), << >>) :
              missing \in (SUBSET Range(expected_cols)) \ {{}} }
    \cup { NoFile }

InitRerun ==
    /\ raw_file \in RerunRawFiles
    /\ \/ processed_dir = FALSE /\ out_csv = NoFile /\ metadata_json = NoMeta
       \/ processed_dir = TRUE /\ out_csv = StaleCsv /\ metadata_json = StaleMeta
    /\ last_good = NoGood
    /\ RunStarts
    /\ OtherScriptsStart

\* The script is started again over the same raw file: a new process, with
\* data/processed as the run before left it.
Rerun ==
    /\ pc = "exited"
    /\ pc' = "load_energy"
    /\ energy' = NoFrame
    /\ combined' = NoFrame
    /\ exc' = NoError
    /\ io' = << >>
    /\ status' = -1
    /\ calls' = << >>
    /\ before' = [dir |-> processed_dir, csv |-> out_csv, meta |-> metadata_json]
    /\ last_good' =
          IF status = 0
          THEN [ran |-> TRUE, combined |-> combined, csv |-> out_csv,
                meta |-> metadata_json]
          ELSE last_good
    /\ UNCHANGED << raw_file, processed_dir, out_csv, metadata_json >>
    /\ UNCHANGED << download_state, analysis_state, report_state >>

NextRerun == Next \/ Rerun

SpecRerun == InitRerun /\ [][NextRerun]_vars

\* ------------------------------------------------------------- spellings
\* Raw files whose entity names include spellings that differ from an
\* alias by letter case or by a leading or trailing blank only.
SpelledLineKinds ==
    { "United States", "united states", " United States", "European Union (27)",
      "european union (27)", "European Union", "European Union " }
        \X { << 2020, "measured" >> }

SpelledRawFiles ==
    { RawFile(Headers({}, {}), e) :
        e \in UNION { [1..n -> SpelledLineKinds] : n \in 0..MaxRows } }

InitSpelled ==
    /\ raw_file \in SpelledRawFiles
    /\ processed_dir = FALSE
    /\ out_csv = NoFile
    /\ metadata_json = NoMeta
    /\ last_good = NoGood
    /\ RunStarts
    /\ OtherScriptsStart

SpecSpelled == InitSpelled /\ [][Next]_vars

\* ------------------------------------------------------------- malformed cells
\* Raw files in which a nuclear_share_energy field may be no numeral.
MalformedLineKinds ==
    { "European Union (27)", "United States" }
        \X { << 2020, "measured" >>, << 2020, "malformed" >> }

MalformedRawFiles ==
    { RawFile(Headers({}, {}), e) :
        e \in UNION { [1..n -> MalformedLineKinds] : n \in 0..MaxRows } }

InitMalformed ==
    /\ raw_file \in MalformedRawFiles
    /\ processed_dir = FALSE
    /\ out_csv = NoFile
    /\ metadata_json = NoMeta
    /\ last_good = NoGood
    /\ RunStarts
    /\ OtherScriptsStart

SpecMalformed == InitMalformed /\ [][Next]_vars

\* ------------------------------------------------------------- invalid headers
\* Raw files that lack required columns, some with a line of an entity that
\* is no alias, next to short files that have every column.
InvalidRawFiles ==
    IncompleteRawFiles
    \cup { RawFile(Headers({}, extras), e) :
              extras \in SUBSET ExtraCols,
              e \in UNION { Entries(n) : n \in 0..MaxRows - 1 } }

InitInvalid ==
    /\ raw_file \in InvalidRawFiles
    /\ processed_dir = FALSE
    /\ out_csv = NoFile
    /\ metadata_json = NoMeta
    /\ last_good = NoGood
    /\ RunStarts
    /\ OtherScriptsStart

SpecInvalid == InitInvalid /\ [][Next]_vars

\* ------------------------------------------------------------- download_data
\* DATASETS, in insertion order: file name and URL.
DATASETS ==
    << << "owid-energy-data.csv",
          "https://raw.githubusercontent.com/owid/energy-data/master/owid-energy-data.csv" >>,
       << "owid-co2-data.csv",
          "https://raw.githubusercontent.com/owid/co2-data/master/owid-co2-data.csv" >> >>

\* What a server may answer: no answer at all, or a status and a body.
Statuses == { 200, 304, 404, 503 }

\* The dataset as the server holds it: one of two snapshots.
Snapshots(i) ==
    IF i = 1
    THEN { RawFile(Headers({}, {}), << << "United States", << y, "measured" >> >> >>) :
             y \in { 2019, 2020 } }
    ELSE { [exists |-> TRUE, complete |-> TRUE,
            header |-> << "country", "year", "co2" >>,
            lines |-> << << "United States", y, 47 >> >>] : y \in { 2019, 2020 } }

ErrorPage ==
    [exists |-> TRUE, complete |-> TRUE, header |-> << "404: Not Found" >>,
     lines |-> << >>]

NoReply == [status |-> 0, content |-> NoFile]

Replies(i) ==
    { NoReply } \cup [status : Statuses, content : Snapshots(i) \cup { ErrorPage }]

\* The copy an earlier download has left.
EarlierCopy(i) ==
    IF i = 1
    THEN RawFile(Headers({}, {}), << << "European Union (27)", << 2019, "measured" >> >> >>)
    ELSE [exists |-> TRUE, complete |-> TRUE, header |-> << "country", "year", "co2" >>,
          lines |-> << << "United States", 2018, 49 >> >>]

\* response.raise_for_status(): raises HTTPError for 4xx and 5xx.
raise_for_status(status_code) == status_code >= 400 /\ status_code < 600

\* How dest.write_bytes(content) may end.
WriteOutcomes == { "written", "open fails", "cut short" }

\* dest.write_bytes(content): the file is opened for writing, which empties
\* it, and filled.
write_bytes(dest, content, how) ==
    CASE how = "written" -> content
      [] how = "open fails" -> dest
      [] OTHER -> Truncated(content, 0)

\* mutant of download_file: the body is written before the status is looked at.
download_file_write_first(dest, reply, how) ==
    IF reply = NoReply
    THEN [raised |-> "ConnectionError", dest |-> dest, written |-> FALSE]
    ELSE IF how # "written"
    THEN [raised |-> "OSError", dest |-> write_bytes(dest, reply.content, how),
          written |-> FALSE]
    ELSE IF raise_for_status(reply.status)
    THEN [raised |-> IF reply.status < 500 THEN "HTTPError: Client Error"
                     ELSE "HTTPError: Server Error",
          dest |-> write_bytes(dest, reply.content, how), written |-> TRUE]
    ELSE [raised |-> "none", dest |-> write_bytes(dest, reply.content, how),
          written |-> TRUE]

\* download_file(url, dest): get, raise_for_status, write_bytes.
download_file(dest, reply, how) ==
    IF reply = NoReply
    THEN [raised |-> "ConnectionError", dest |-> dest, written |-> FALSE]
    ELSE IF raise_for_status(reply.status)
    THEN [raised |-> IF reply.status < 500 THEN "HTTPError: Client Error"
                     ELSE "HTTPError: Server Error",
          dest |-> dest, written |-> FALSE]
    ELSE IF how # "written"
    THEN [raised |-> "OSError", dest |-> write_bytes(dest, reply.content, how),
          written |-> FALSE]
    ELSE [raised |-> "none", dest |-> write_bytes(dest, reply.content, how),
          written |-> TRUE]

\* The file DATA_DIR / filename of dataset i.
Dest(i) == IF i = 1 THEN raw_file ELSE co2_file

\* main: ensure_dir(DATA_DIR), outside the try: a failure leaves main.
DlEnsureDir ==
    /\ dl_pc = "ensure_dir"
    /\ \/ /\ data_dir' = TRUE
          /\ dl_pc' = "loop"
          /\ UNCHANGED dl_status
       \/ /\ ~data_dir
          /\ dl_pc' = "exited"
          /\ dl_status' = 1
          /\ UNCHANGED data_dir
    /\ UNCHANGED << raw_file, co2_file, dl_i, dl_log >>
    /\ UNCHANGED << process_state, analysis_state, report_state >>

\* What one turn of main's loop leaves in the log: the request with the
\* status it was answered with (0 if it was not), then the file if
\* written, or the failure main prints.
Logged(i, reply, r) ==
    << << "get", DATASETS[i][2], reply.status >> >>
        \o (IF r.written THEN << << "written", DATASETS[i][1] >> >> ELSE << >>)
        \o (IF r.raised # "none"
            THEN << << "failed", DATASETS[i][2], r.raised >> >> ELSE << >>)

\* mutant of Download: after a failed download main goes on to the next
\* dataset.
DownloadGoesOn ==
    /\ dl_pc = "loop"
    /\ dl_i <= Len(DATASETS)
    /\ \E reply \in Replies(dl_i) : \E how \in WriteOutcomes :
          LET r == download_file(Dest(dl_i), reply, how)
          IN /\ raw_file' = IF dl_i = 1 THEN r.dest ELSE raw_file
             /\ co2_file' = IF dl_i = 2 THEN r.dest ELSE co2_file
             /\ dl_log' = dl_log \o Logged(dl_i, reply, r)
             /\ dl_i' = dl_i + 1
             /\ UNCHANGED << dl_pc, dl_status >>
    /\ UNCHANGED data_dir
    /\ UNCHANGED << process_state, analysis_state, report_state >>

\* main: one turn of the loop over DATASETS.items(): download_file inside
\* the try; on any exception, return 1.
Download ==
    /\ dl_pc = "loop"
    /\ dl_i <= Len(DATASETS)
    /\ \E reply \in Replies(dl_i) : \E how \in WriteOutcomes :
          LET r == download_file(Dest(dl_i), reply, how)
          IN /\ raw_file' = IF dl_i = 1 THEN r.dest ELSE raw_file
             /\ co2_file' = IF dl_i = 2 THEN r.dest ELSE co2_file
             /\ dl_log' = dl_log \o Logged(dl_i, reply, r)
             /\ IF r.raised = "none"
                THEN /\ dl_i' = dl_i + 1
                     /\ UNCHANGED << dl_pc, dl_status >>
                ELSE /\ dl_pc' = "exited"
                     /\ dl_status' = 1
                     /\ UNCHANGED dl_i
    /\ UNCHANGED data_dir
    /\ UNCHANGED << process_state, analysis_state, report_state >>

\* main: the loop is over; print, return 0.
DlReturnZero ==
    /\ dl_pc = "loop"
    /\ dl_i > Len(DATASETS)
    /\ dl_pc' = "exited"
    /\ dl_status' = 0
    /\ UNCHANGED << raw_file, data_dir, co2_file, dl_i, dl_log >>
    /\ UNCHANGED << process_state, analysis_state, report_state >>

\* What data/raw may hold of dataset i before a download: nothing, an
\* earlier copy, or what an earlier download cut short has left.
EarlierFiles(i) == { NoFile, EarlierCopy(i), Truncated(EarlierCopy(i), 0) }

\* data/raw before a download: absent, empty, or with earlier files.
InitDownload ==
    /\ data_dir \in BOOLEAN
    /\ raw_file \in IF data_dir THEN EarlierFiles(1) ELSE { NoFile }
    /\ co2_file \in IF data_dir THEN EarlierFiles(2) ELSE { NoFile }
    /\ DownloadStarts
    /\ processed_dir = FALSE
    /\ out_csv = NoFile
    /\ metadata_json = NoMeta
    /\ last_good = NoGood
    /\ RunStarts
    /\ AnalysisStarts
    /\ reports_dir = [exists |-> FALSE, files |-> << >>]
    /\ ReportStarts

NextDownload ==
    \/ DlEnsureDir
    \/ Download
    \/ DlReturnZero

SpecDownload == InitDownload /\ [][NextDownload]_vars

\* ------------------------------------------------------------- analysis scripts
\* df['year'] = pd.to_numeric(df['year'], errors='coerce');
\* df = df.dropna(subset=['year']): rows with a null year are dropped.
dropna_year(df) ==
    IF "year" \notin Range(df.columns) THEN Raise(KeyError("year"))
    ELSE LET HasYear(r) == r.data["year"] # NaN
         IN Return([columns |-> df.columns, rows |-> SelectSeq(df.rows, HasYear)])

\* df[df['country'].isin(['European Union (27)', 'United States'])]
IsinEuUs(df) ==
    LET Kept(r) == r.data["country"] \in {"European Union (27)", "United States"}
    IN [columns |-> df.columns, rows |-> SelectSeq(df.rows, Kept)]

\* .rename(columns={'country': 'region'}): the column keeps its place.
RenameCountry(df) ==
    [columns |-> [j \in 1..Len(df.columns) |->
                    IF df.columns[j] = "country" THEN "region" ELSE df.columns[j]],
     rows |-> [i \in 1..Len(df.rows) |->
                 [index |-> df.rows[i].index,
                  data |-> [c \in (Range(df.columns) \ {"country"}) \cup {"region"} |->
                              IF c = "region" THEN df.rows[i].data["country"]
                              ELSE df.rows[i].data[c]]]]]

\* .loc[eu_us_data['region'] == 'European Union (27)', 'region'] = 'EU27'
RelabelEU27(df) ==
    [columns |-> df.columns,
     rows |-> [i \in 1..Len(df.rows) |->
                 [index |-> df.rows[i].index,
                  data |-> [df.rows[i].data EXCEPT
                              !["region"] = IF @ = "European Union (27)"
                                            THEN "EU27" ELSE @]]]]

\* With two columns named region, eu_us_data['region'] is a frame, and
\* .loc refuses a frame as row selector.
TwoRegionColumnsError ==
    [type |-> "Exception", msg |-> "region is not a single column", arg |-> << >>]

NoDataError ==
    [type |-> "ValueError", msg |-> "No data found for EU27 and US", arg |-> << >>]

\* mutant of eu_us_rows: the regions are resolved as the reducer resolves
\* them, "European Union" standing in for the EU and the US relabelled.
eu_us_rows_resolved(df) ==
    IF "country" \notin Range(df.columns) THEN Raise(KeyError("country"))
    ELSE IF "region" \in Range(df.columns) THEN Raise(TwoRegionColumnsError)
    ELSE LET eu == IF Present(df, EU_NAMES) = << >> THEN "European Union (27)"
                   ELSE Present(df, EU_NAMES)[1]
             Kept(r) == r.data["country"] \in {eu, "United States"}
             kept == RenameCountry([columns |-> df.columns,
                                    rows |-> SelectSeq(df.rows, Kept)])
         IN Return([columns |-> kept.columns,
                    rows |-> [i \in 1..Len(kept.rows) |->
                                [index |-> kept.rows[i].index,
                                 data |-> [kept.rows[i].data EXCEPT
                                             !["region"] = IF @ = "United States"
                                                           THEN "US" ELSE "EU27"]]]])

\* The three lines the analysis scripts share: filter, rename, relabel.
eu_us_rows(df) ==
    IF "country" \notin Range(df.columns) THEN Raise(KeyError("country"))
    ELSE IF "region" \in Range(df.columns) THEN Raise(TwoRegionColumnsError)
    ELSE Return(RelabelEU27(RenameCountry(IsinEuUs(df))))

\* ShaleGasAnalyzer.__init__ up to the check that data exists.
ShaleGasAnalyzerInit ==
    /\ an_pc = "start"
    /\ an_pc' = "ShaleGasAnalyzer"
    /\ eu_us_data' =
          IF ~raw_file.exists THEN Raise(OSError("read owid-energy-data.csv"))
          ELSE LET d == dropna_year(read_csv(raw_file))
               IN IF ~d.ok THEN d
                  ELSE IF ~eu_us_rows(d.df).ok THEN eu_us_rows(d.df)
                  ELSE IF Len(eu_us_rows(d.df).df.rows) = 0 THEN Raise(NoDataError)
                  ELSE eu_us_rows(d.df)
    /\ UNCHANGED << raw_file, process_state, download_state, report_state >>

\* simple_shale_gas_analysis.main up to the derivation of the regions.
SimpleShaleMain ==
    /\ an_pc = "start"
    /\ an_pc' = "simple_shale_gas_analysis"
    /\ eu_us_data' =
          IF ~raw_file.exists THEN Raise(OSError("read owid-energy-data.csv"))
          ELSE eu_us_rows(read_csv(raw_file))
    /\ UNCHANGED << raw_file, process_state, download_state, report_state >>

\* triple_comparison_analysis.main up to the derivation of the regions: the
\* processed file is read first, then the raw file.
TripleComparisonMain ==
    /\ an_pc = "start"
    /\ an_pc' = "triple_comparison_analysis"
    /\ eu_us_data' =
          IF ~out_csv.exists THEN Raise(OSError("read eu_us_energy.csv"))
          ELSE IF ~raw_file.exists THEN Raise(OSError("read owid-energy-data.csv"))
          ELSE LET d == dropna_year(read_csv(raw_file))
               IN IF ~d.ok THEN d ELSE eu_us_rows(d.df)
    /\ UNCHANGED << raw_file, process_state, download_state, report_state >>

\* The pipeline and one analysis script, run over the same raw file in
\* any order.
NextDerived ==
    \/ Next
    \/ ShaleGasAnalyzerInit
    \/ SimpleShaleMain
    \/ TripleComparisonMain

SpecDerived == InitInvalid /\ [][NextDerived]_vars

\* ------------------------------------------------------------- generate_pdf_reports
\* The charts create_comprehensive_charts saves, in the order it saves them.
ChartFiles ==
    << "nuclear_trends_report.png", "renewables_trends_report.png",
       "gas_trends_report.png", "energy_mix_2024_report.png" >>

EnglishPdf == "detailed_energy_analysis_report_en.pdf"
TurkishPdf == "detailed_energy_analysis_report_tr.pdf"

\* load_data, one file: read_csv, to_numeric on year, dropna on year. Any
\* exception is caught by load_data's except.
LoadedFrame(file) ==
    IF ~file.exists THEN Raise(OSError("read"))
    ELSE dropna_year(read_csv(file))

\* self.modern_df = self.df[self.df['year'] >= 1990]
Modern(df) ==
    LET Since1990(r) == r.data["year"] >= 1990
    IN [columns |-> df.columns, rows |-> SelectSeq(df.rows, Since1990)]

\* len(latest[latest.region == region]) for latest = modern_df[year == 2024]
LatestCount(df, region) ==
    LET Latest(r) == r.data["year"] = 2024 /\ r.data["region"] = region
    IN Len(SelectSeq(Modern(df).rows, Latest))

\* Whether the code that draws chart k raises before it saves the chart:
\* charts 1 and 2 read region, year and a share of modern_df; chart 3
\* reads country and year of raw_df and, if a line of either region is
\* left, gas_share_energy; chart 4 takes float() of the 2024 values of
\* each region, which raises unless there is exactly one.
ChartRaises(k, df, raw_df) ==
    CASE k = 1 -> ~({"region", "year", "nuclear_share_energy"} \subseteq Range(df.columns))
      [] k = 2 -> ~({"region", "year", "renewables_share_energy"} \subseteq Range(df.columns))
      [] k = 3 ->
            \/ "country" \notin Range(raw_df.columns)
            \/ /\ Modern(IsinEuUs(raw_df)).rows # << >>
               /\ "gas_share_energy" \notin Range(raw_df.columns)
      [] OTHER ->
            \/ ~({"nuclear_share_energy", "renewables_share_energy",
                  "low_carbon_share_energy"} \subseteq Range(df.columns))
            \/ LatestCount(df, "EU27") # 1
            \/ LatestCount(df, "US") # 1

\* The number of charts saved before create_comprehensive_charts raises, or
\* all four; savefig raises when reports/ does not exist.
ChartsSaved(df, raw_df, dir_exists) ==
    IF ~dir_exists THEN 0
    ELSE IF \E k \in 1..Len(ChartFiles) : ChartRaises(k, df, raw_df)
    THEN (CHOOSE k \in 1..Len(ChartFiles) :
             /\ ChartRaises(k, df, raw_df)
             /\ \A j \in 1..(k - 1) : ~ChartRaises(j, df, raw_df)) - 1
    ELSE Len(ChartFiles)

\* mutant of RepLoadData: generate_reports goes on to the charts whatever
\* load_data returned.
RepLoadDataGoesOn ==
    /\ rep_pc = "load_data"
    /\ LET d == LoadedFrame(out_csv)
           r == LoadedFrame(raw_file)
       IN /\ rep_loaded' = [df |-> d.ok, raw_df |-> d.ok /\ r.ok]
          /\ rep_pc' = "charts"
          /\ UNCHANGED rep_result
    /\ UNCHANGED << raw_file, reports_dir, process_state, download_state,
                    analysis_state >>

\* generate_reports: if not self.load_data(): return False. The processed
\* file is loaded first; the raw file is not read if that fails.
RepLoadData ==
    /\ rep_pc = "load_data"
    /\ LET d == LoadedFrame(out_csv)
           r == LoadedFrame(raw_file)
       IN /\ rep_loaded' = [df |-> d.ok, raw_df |-> d.ok /\ r.ok]
          /\ IF d.ok /\ r.ok
             THEN /\ rep_pc' = "charts"
                  /\ UNCHANGED rep_result
             ELSE /\ rep_pc' = "exited"
                  /\ rep_result' = "False"
    /\ UNCHANGED << raw_file, reports_dir, process_state, download_state,
                    analysis_state >>

\* generate_reports: charts = self.create_comprehensive_charts(). An
\* exception in it leaves generate_reports.
RepCreateCharts ==
    /\ rep_pc = "charts"
    /\ LET df == IF rep_loaded.df THEN LoadedFrame(out_csv).df ELSE NoFrame
           raw_df == IF rep_loaded.raw_df THEN LoadedFrame(raw_file).df ELSE NoFrame
           n == ChartsSaved(df, raw_df, reports_dir.exists)
       IN /\ reports_dir' =
                [reports_dir EXCEPT !.files = @ \o SubSeq(ChartFiles, 1, n)]
          /\ IF n = Len(ChartFiles)
             THEN /\ rep_pc' = "english"
                  /\ UNCHANGED rep_result
             ELSE /\ rep_pc' = "exited"
                  /\ rep_result' = "raised"
    /\ UNCHANGED << raw_file, rep_loaded, process_state, download_state,
                    analysis_state >>

\* generate_reports: self.generate_english_report(charts); doc.build
\* writes the PDF or raises.
RepEnglish ==
    /\ rep_pc = "english"
    /\ \/ /\ reports_dir' = [reports_dir EXCEPT !.files = Append(@, EnglishPdf)]
          /\ rep_pc' = "turkish"
          /\ UNCHANGED rep_result
       \/ /\ rep_pc' = "exited"
          /\ rep_result' = "raised"
          /\ UNCHANGED reports_dir
    /\ UNCHANGED << raw_file, rep_loaded, process_state, download_state,
                    analysis_state >>

\* generate_reports: self.generate_turkish_report(charts)
RepTurkish ==
    /\ rep_pc = "turkish"
    /\ \/ /\ reports_dir' = [reports_dir EXCEPT !.files = Append(@, TurkishPdf)]
          /\ rep_pc' = "return"
          /\ UNCHANGED rep_result
       \/ /\ rep_pc' = "exited"
          /\ rep_result' = "raised"
          /\ UNCHANGED reports_dir
    /\ UNCHANGED << raw_file, rep_loaded, process_state, download_state,
                    analysis_state >>

\* generate_reports: return True
RepReturnTrue ==
    /\ rep_pc = "return"
    /\ rep_pc' = "exited"
    /\ rep_result' = "True"
    /\ UNCHANGED << raw_file, reports_dir, rep_loaded, process_state,
                    download_state, analysis_state >>

\* Processed files the pipeline may have left: lines of 2024 and of 2023.
ReportLine(region, year) == << region, year, 105, 142, 753, 247, 170 >>

ReportProcessedFiles ==
    { NoFile }
    \cup { [exists |-> TRUE, complete |-> TRUE, header |-> keep_cols, lines |-> l] :
             l \in { << >>,
                     << ReportLine("EU27", 2024) >>,
                     << ReportLine("EU27", 2024), ReportLine("US", 2024) >>,
                     << ReportLine("EU27", 2024), ReportLine("US", 2023),
                        ReportLine("US", 2024) >>,
                     << ReportLine("EU27", 2024), ReportLine("US", 2024),
                        ReportLine("US", 2024) >> } }

\* Raw files with or without the year and the gas share columns.
ReportRawHeaders ==
    { << "country", "year", "gas_share_energy" >>, << "country", "year" >>,
      << "country", "gas_share_energy" >> }

ReportRawLine(header, country) ==
    [j \in 1..Len(header) |->
        CASE header[j] = "country" -> country
          [] header[j] = "year" -> 2024
          [] OTHER -> 230]

ReportRawFiles ==
    { NoFile }
    \cup { [exists |-> TRUE, complete |-> TRUE, header |-> h,
            lines |-> [i \in 1..Len(cs) |-> ReportRawLine(h, cs[i])]] :
             h \in ReportRawHeaders,
             cs \in { << >>, << "France" >>, << "European Union (27)", "United States" >> } }

InitReport ==
    /\ raw_file \in ReportRawFiles
    /\ out_csv \in ReportProcessedFiles
    /\ processed_dir = out_csv.exists
    /\ metadata_json = NoMeta
    /\ last_good = NoGood
    /\ RunStarts
    /\ data_dir = raw_file.exists
    /\ co2_file = NoFile
    /\ DownloadStarts
    /\ AnalysisStarts
    /\ reports_dir \in [exists : BOOLEAN, files : { << >> }]
    /\ ReportStarts

NextReport ==
    \/ RepLoadData
    \/ RepCreateCharts
    \/ RepEnglish
    \/ RepTurkish
    \/ RepReturnTrue

SpecReport == InitReport /\ [][NextReport]_vars

\* ------------------------------------------------------------- vocabulary
\* The raw table as the file holds it.
RawField(i, c) == raw_file.lines[i][IndexOf(raw_file.header, c)]
RawCountries == { RawField(i, "country") : i \in 1..Len(raw_file.lines) }
RawLinesOf(name) == { i \in 1..Len(raw_file.lines) : RawField(i, "country") = name }

ValueCols == {"year"} \cup NumericCols

\* What a raw line's year and figures are once loaded: an empty field is
\* null, every other field its number.
RawValues(i) ==
    [c \in ValueCols |->
        IF c # "year" /\ RawField(i, c) = EmptyField THEN NaN ELSE RawField(i, c)]

RawValuesOf(name) ==
    LET IsName(i) == RawField(i, "country") = name
        idx == SelectSeq([i \in 1..Len(raw_file.lines) |-> i], IsName)
    IN [k \in 1..Len(idx) |-> RawValues(idx[k])]

\* The normalized rows of one region, without the region label.
NormValuesOf(code) ==
    LET IsCode(r) == r.data["region"] = code
        sel == SelectSeq(combined.rows, IsCode)
    IN [k \in 1..Len(sel) |-> [c \in ValueCols |-> sel[k].data[c]]]

Count(s, v) == Cardinality({ i \in 1..Len(s) : s[i] = v })
SameBag(s, t) ==
    /\ Len(s) = Len(t)
    /\ \A v \in Range(s) \cup Range(t) : Count(s, v) = Count(t, v)

LoadOk == energy # NoFrame
BuildRan == LoadOk /\ pc \notin {"load_energy", "build_eu_us_energy"}
BuildOk == combined # NoFrame

\* The alias the first-match rule picks for the EU.
ChosenEU ==
    IF "European Union (27)" \in RawCountries THEN "European Union (27)"
    ELSE "European Union"

IsMissingColumnsError(e) ==
    e.type = "RuntimeError" /\ e.msg = "Missing expected columns in energy dataset"
IsUnresolvedRegionError(e) ==
    e.type = "RuntimeError" /\ e.msg = "None of the region names found in dataset"

\* ------------------------------------------------------------- C1
AbsentRequired ==
    { c \in { "country", "year", "nuclear_share_energy", "renewables_share_energy",
              "fossil_share_energy", "low_carbon_share_energy",
              "primary_energy_consumption" } : c \notin Range(raw_file.header) }

\* C1: once a readable raw file has been loaded, load has failed with the
\* missing-columns error listing exactly the absent required columns (each
\* once) if any is absent, and has succeeded, returning the table, if all
\* seven are present, whatever extra columns there are.
C1_SchemaGate ==
    (pc # "load_energy" /\ raw_file.exists) =>
        IF AbsentRequired # {}
        THEN /\ ~LoadOk
             /\ IsMissingColumnsError(exc)
             /\ Range(exc.arg) = AbsentRequired
             /\ Len(exc.arg) = Cardinality(AbsentRequired)
        ELSE /\ LoadOk
             /\ energy.columns = raw_file.header
             /\ Len(energy.rows) = Len(raw_file.lines)
             /\ ~IsMissingColumnsError(exc)

\* A file with an extra column and two required columns absent was rejected.
C1_Witness ==
    /\ pc = "exited"
    /\ IsMissingColumnsError(exc)
    /\ Cardinality(AbsentRequired) = 2
    /\ "co2_emissions" \in Range(raw_file.header)

\* ------------------------------------------------------------- C2
\* C2: a run that has ended has persisted both outputs, whole, or neither.
C2_AllOrNothing ==
    pc = "exited" =>
        /\ out_csv.exists = metadata_json.exists
        /\ out_csv.complete
        /\ metadata_json.complete

\* ------------------------------------------------------------- C3
\* C3: when the raw table has rows for both EU aliases and the reduction
\* succeeded, the EU27 rows are the "European Union (27)" rows, no more and
\* no fewer, so no "European Union" row is among them.
C3_AliasOrder ==
    (BuildRan /\ BuildOk /\ {"European Union (27)", "European Union"} \subseteq RawCountries) =>
        SameBag(NormValuesOf("EU27"), RawValuesOf("European Union (27)"))

C3_Witness ==
    /\ BuildRan /\ BuildOk
    /\ {"European Union (27)", "European Union"} \subseteq RawCountries
    /\ out_csv.exists /\ out_csv.complete

\* ------------------------------------------------------------- C4
\* C4: when the raw table has "European Union" rows, no "European Union (27)"
\* row and "United States" rows, the reduction succeeds and its EU27 rows
\* are the "European Union" rows.
C4_AliasFallback ==
    (BuildRan /\ "European Union" \in RawCountries
              /\ "European Union (27)" \notin RawCountries
              /\ "United States" \in RawCountries) =>
        /\ BuildOk
        /\ SameBag(NormValuesOf("EU27"), RawValuesOf("European Union"))

\* ------------------------------------------------------------- C5
EUUnresolved == RawCountries \cap {"European Union (27)", "European Union"} = {}
USUnresolved == "United States" \notin RawCountries

\* C5: when a region has no alias among the raw entity names, the reduction
\* fails with the unresolved-region error and the run writes no file.
C5_UnresolvedRegion ==
    (BuildRan /\ (EUUnresolved \/ USUnresolved)) =>
        /\ ~BuildOk
        /\ IsUnresolvedRegionError(exc)
        /\ io = << "read owid-energy-data.csv" >>
        /\ ~out_csv.exists /\ ~metadata_json.exists /\ ~processed_dir

\* ------------------------------------------------------------- C6
UniqueRegionYear ==
    \A i, j \in 1..Len(combined.rows) :
        (/\ combined.rows[i].data["region"] = combined.rows[j].data["region"]
         /\ combined.rows[i].data["year"] = combined.rows[j].data["year"]) => i = j

RawKeysUnique ==
    \A i, j \in 1..Len(raw_file.lines) :
        (/\ RawField(i, "country") = RawField(j, "country")
         /\ RawField(i, "year") = RawField(j, "year")) => i = j

\* C6 as claimed: whenever the pipeline succeeds, the normalized table has
\* at most one record per (region, year).
C6_Unique == (BuildRan /\ BuildOk) => UniqueRegionYear

\* C6 as amended: whenever the pipeline succeeds on a raw table in which no
\* two rows share (country, year), the normalized table has at most one
\* record per (region, year).
C6_UniqueGivenUniqueRaw == (BuildRan /\ BuildOk /\ RawKeysUnique) => UniqueRegionYear

\* Both EU aliases carry the same year, and the raw keys are unique.
C6_Witness ==
    /\ BuildRan /\ BuildOk /\ RawKeysUnique
    /\ \E i \in RawLinesOf("European Union (27)"), j \in RawLinesOf("European Union") :
          RawField(i, "year") = RawField(j, "year")

\* ------------------------------------------------------------- C7
Ordered(region1, year1, region2, year2) ==
    \/ region1 = region2 /\ year1 <= year2
    \/ StrLess(region1, region2)

\* C7: in the normalized table, and in the lines written to the output
\* file, adjacent rows are ordered by region code, then by year; every
\* EU27 row stands before every US row.
C7_Sorted ==
    /\ \A i \in 1..Len(combined.rows) - 1 :
          Ordered(combined.rows[i].data["region"], combined.rows[i].data["year"],
                  combined.rows[i + 1].data["region"], combined.rows[i + 1].data["year"])
    /\ \A i, j \in 1..Len(combined.rows) :
          (combined.rows[i].data["region"] = "EU27" /\ combined.rows[j].data["region"] = "US")
              => i < j
    /\ \A i \in 1..Len(out_csv.lines) - 1 :
          Ordered(out_csv.lines[i][1], out_csv.lines[i][2],
                  out_csv.lines[i + 1][1], out_csv.lines[i + 1][2])

\* The raw file lists a US line first and a region's years downwards, and
\* the table was written.
C7_Witness ==
    /\ out_csv.exists /\ out_csv.complete /\ Len(out_csv.lines) = 3
    /\ RawField(1, "country") = "United States"
    /\ \E i, j \in 1..Len(raw_file.lines) :
          /\ i < j
          /\ RawField(i, "country") = RawField(j, "country")
          /\ RawField(i, "country") # "France"
          /\ RawField(i, "year") > RawField(j, "year")

\* ------------------------------------------------------------- C8
\* C8: every normalized row, in memory and in the output file, has region
\* "EU27" or "US"; no alias string is a region value.
C8_RegionCodes ==
    /\ \A i \in 1..Len(combined.rows) : combined.rows[i].data["region"] \in {"EU27", "US"}
    /\ \A i \in 1..Len(out_csv.lines) : out_csv.lines[i][1] \in {"EU27", "US"}

\* The EU was resolved through the fallback alias and the table written.
C8_Witness ==
    /\ out_csv.exists /\ out_csv.complete
    /\ "European Union (27)" \notin RawCountries
    /\ "European Union" \in RawCountries

\* ------------------------------------------------------------- C9
SevenColumns ==
    << "region", "year", "nuclear_share_energy", "renewables_share_energy",
       "fossil_share_energy", "low_carbon_share_energy",
       "primary_energy_consumption" >>

\* C9: the normalized table has exactly the seven output columns, in
\* order, and so has the written file: seven header names, seven fields a
\* line, no entity-name, extra or index column.
C9_Projection ==
    /\ BuildOk =>
          /\ combined.columns = SevenColumns
          /\ \A i \in 1..Len(combined.rows) :
                DOMAIN combined.rows[i].data = Range(SevenColumns)
    /\ out_csv.exists =>
          /\ out_csv.header = SevenColumns
          /\ \A i \in 1..Len(out_csv.lines) : Len(out_csv.lines[i]) = 7

\* A raw file with the extra column co2_emissions was reduced and written.
C9_Witness ==
    /\ out_csv.exists /\ out_csv.complete /\ Len(out_csv.lines) >= 2
    /\ "co2_emissions" \in Range(raw_file.header)

\* ------------------------------------------------------------- C10
\* The raw fields of the lines of one entity, as the file holds them.
RawFieldsOf(name) ==
    LET IsName(i) == RawField(i, "country") = name
        idx == SelectSeq([i \in 1..Len(raw_file.lines) |-> i], IsName)
    IN [k \in 1..Len(idx) |->
          [j \in 1..6 |-> RawField(idx[k], SevenColumns[j + 1])]]

OutFieldsOf(code) ==
    LET IsCode(l) == l[1] = code
        sel == SelectSeq(out_csv.lines, IsCode)
    IN [k \in 1..Len(sel) |-> [j \in 1..6 |-> sel[k][j + 1]]]

\* C10: the normalized rows of a region are, as a multiset, the raw rows of
\* the chosen alias projected to year and the five figures, values
\* unchanged and an empty raw cell null; the complete output file holds the
\* same fields as the raw file, an empty field staying empty.
C10_PassThrough ==
    /\ (BuildRan /\ BuildOk) =>
          /\ SameBag(NormValuesOf("EU27"), RawValuesOf(ChosenEU))
          /\ SameBag(NormValuesOf("US"), RawValuesOf("United States"))
          /\ Len(combined.rows) = Len(RawValuesOf(ChosenEU)) + Len(RawValuesOf("United States"))
    /\ (out_csv.exists /\ out_csv.complete) =>
          /\ SameBag(OutFieldsOf("EU27"), RawFieldsOf(ChosenEU))
          /\ SameBag(OutFieldsOf("US"), RawFieldsOf("United States"))

\* A line with empty figures was selected, another entity's line was not,
\* and the table was written.
C10_Witness ==
    /\ out_csv.exists /\ out_csv.complete
    /\ "France" \in RawCountries
    /\ \E i \in RawLinesOf("United States") :
          RawField(i, "renewables_share_energy") = EmptyField

\* ------------------------------------------------------------- C11
\* This run has written the whole normalized file / the whole metadata file.
CsvWritten == pc \in {"write_text", "return"} \/ (pc = "exited" /\ status = 0)
             \/ (pc = "exited" /\ exc.msg \in {"open metadata.json", "write metadata.json"})
MetaWritten == pc = "return" \/ (pc = "exited" /\ status = 0)

WithoutTime(m) == [m EXCEPT !.generated_at = << >>]

\* C11: a run over the raw input of an earlier successful run builds the
\* same normalized table, row for row and label for label, and writes the
\* same normalized file, whatever data/processed held when it started; its
\* metadata equals the earlier run's but for generated_at.
C11_Idempotent ==
    last_good.ran =>
        /\ (BuildRan /\ BuildOk) => combined = last_good.combined
        /\ CsvWritten => out_csv = last_good.csv
        /\ MetaWritten => WithoutTime(metadata_json) = WithoutTime(last_good.meta)

\* A run returned 0 after an earlier one had; it started over the torso
\* of a failed run in between, its table has rows tying on (region, year)
\* with different figures, and its timestamp differs from the earlier one.
C11_Witness ==
    /\ last_good.ran /\ status = 0
    /\ before.csv.exists /\ ~before.csv.complete
    /\ metadata_json.generated_at # last_good.meta.generated_at
    /\ \E i, j \in 1..Len(combined.rows) :
          /\ i # j
          /\ combined.rows[i].data["region"] = combined.rows[j].data["region"]
          /\ combined.rows[i].data["year"] = combined.rows[j].data["year"]
          /\ combined.rows[i].data # combined.rows[j].data

\* ------------------------------------------------------------- C12
\* C12: a run that failed with the missing-columns error has ended there:
\* it called nothing after load_energy, made no file-system call besides
\* reading the raw file, and data/processed, the normalized file and the
\* metadata file are as they were when the run started.
C12_SchemaFailureWritesNothing ==
    IsMissingColumnsError(exc) =>
        /\ pc = "exited"
        /\ calls = << "load_energy" >>
        /\ io = << "read owid-energy-data.csv" >>
        /\ combined = NoFrame
        /\ processed_dir = before.dir
        /\ out_csv = before.csv
        /\ metadata_json = before.meta

\* The schema check failed in a run that found an earlier run's outputs.
C12_Witness ==
    /\ IsMissingColumnsError(exc)
    /\ before.csv.exists /\ before.meta.exists

\* ------------------------------------------------------------- C13
NearSpellings ==
    { "united states", " United States", "european union (27)", "European Union " }

\* C13: the reduction yields a table only if an EU alias and "United
\* States" occur among the raw entity names letter for letter, and its rows
\* are then the raw lines whose name is the chosen alias letter for letter:
\* lines spelled in another case or with a blank before or after neither
\* resolve a region nor are selected.
C13_ExactMatch ==
    (BuildRan /\ BuildOk) =>
        /\ RawCountries \cap {"European Union (27)", "European Union"} # {}
        /\ "United States" \in RawCountries
        /\ SameBag(NormValuesOf("EU27"), RawValuesOf(ChosenEU))
        /\ SameBag(NormValuesOf("US"), RawValuesOf("United States"))
        /\ Len(combined.rows) = Cardinality(RawLinesOf(ChosenEU))
                                + Cardinality(RawLinesOf("United States"))

\* A table was built from a raw file that also holds a near spelling.
C13_Witness ==
    /\ BuildRan /\ BuildOk
    /\ RawCountries \cap NearSpellings # {}

\* ------------------------------------------------------------- C14
\* The strings an exception's message spells out besides its fixed text.
NamedBy(e) == Range(e.arg)

\* C14: the unresolved-region error names the canonical code of the region
\* that could not be resolved and that region's whole alias list.
C14_NamesRegionAndAliases ==
    IsUnresolvedRegionError(exc) =>
        \/ /\ "EU27" \in NamedBy(exc)
           /\ {"European Union (27)", "European Union"} \subseteq NamedBy(exc)
        \/ /\ "US" \in NamedBy(exc)
           /\ "United States" \in NamedBy(exc)

\* ------------------------------------------------------------- C15
IsLookup(c) == c \in {"select_region EU", "select_region US"}

\* C15: in every run that reached the reduction the EU is looked up first
\* and the US only after it; when neither region has an alias among the raw
\* names the error reports the EU alias list and the US was never looked up.
C15_EUFirst ==
    BuildRan =>
        /\ SelectSeq(calls, IsLookup) \in
              { << "select_region EU" >>, << "select_region EU", "select_region US" >> }
        /\ (EUUnresolved /\ USUnresolved) =>
              /\ IsUnresolvedRegionError(exc)
              /\ exc.arg = << "European Union (27)", "European Union" >>
              /\ "select_region US" \notin Range(calls)

\* The reduction ran on lines none of which is of either region.
C15_Witness ==
    /\ BuildRan /\ EUUnresolved /\ USUnresolved
    /\ Len(raw_file.lines) >= 1

\* ------------------------------------------------------------- C16
\* C16: the metadata a run has written whole is the same record for every
\* raw input but for the clock reading: generated_at is that reading
\* followed by "Z", sources maps owid_energy and owid_co2 to their two
\* URLs, notes is the fixed text.
C16_MetadataFixed ==
    MetaWritten =>
        /\ metadata_json.exists /\ metadata_json.complete
        /\ Len(metadata_json.generated_at) = 2
        /\ metadata_json.generated_at[1] \in 1..MaxClock
        /\ metadata_json.generated_at[2] = "Z"
        /\ metadata_json.sources =
              << << "owid_energy", "https://github.com/owid/energy-data" >>,
                 << "owid_co2", "https://github.com/owid/co2-data" >> >>
        /\ metadata_json.notes = "Shares are OWID-provided shares of primary energy. EU is taken from the aggregated European Union entity if present."

\* Metadata was written by a run that resolved the EU through its second
\* alias and selected a line with empty figures.
C16_Witness ==
    /\ MetaWritten
    /\ ChosenEU = "European Union"
    /\ \E i \in RawLinesOf("European Union") : RawField(i, "nuclear_share_energy") = EmptyField

\* ------------------------------------------------------------- C17
\* Line i of the normalized file is row i of the table, field for field.
LineIsRow(i) ==
    /\ Len(out_csv.lines[i]) = 7
    /\ out_csv.lines[i][1] = combined.rows[i].data["region"]
    /\ out_csv.lines[i][2] = combined.rows[i].data["year"]
    /\ \A j \in 3..7 :
          LET cell == combined.rows[i].data[SevenColumns[j]]
          IN IF cell = NaN THEN out_csv.lines[i][j] = EmptyField
             ELSE out_csv.lines[i][j] = cell

\* C17: after a run that returned 0 the normalized file holds this run's
\* table and nothing else, the metadata file this run's record and nothing
\* else, whatever the two paths held before, and the run wrote each of the
\* two files once.
C17_FullOverwrite ==
    status = 0 =>
        /\ out_csv.exists /\ out_csv.complete
        /\ out_csv.header = SevenColumns
        /\ Len(out_csv.lines) = Len(combined.rows)
        /\ \A i \in 1..Len(out_csv.lines) : LineIsRow(i)
        /\ metadata_json.exists /\ metadata_json.complete
        /\ metadata_json.generated_at[1] \in 1..MaxClock
        /\ Count(io, "write eu_us_energy.csv") = 1
        /\ Count(io, "write metadata.json") = 1

\* A run returned 0 over paths that held another table and another record.
C17_Witness ==
    /\ status = 0
    /\ before.csv.exists /\ before.csv.lines # out_csv.lines
    /\ before.meta.exists /\ before.meta # metadata_json
    /\ Len(out_csv.lines) >= 2

\* ------------------------------------------------------------- C18
\* C18: the step that loads the raw file, whether it returns the table or
\* fails, leaves the raw file, data/processed, the normalized file and the
\* metadata file as they were; its one file-system call is the read.
C18_LoadReadsOnly ==
    [][pc = "load_energy" =>
          /\ raw_file' = raw_file
          /\ processed_dir' = processed_dir
          /\ out_csv' = out_csv
          /\ metadata_json' = metadata_json
          /\ io' = Append(io, "read owid-energy-data.csv")]_vars

\* The loader returned a table while an earlier run's outputs were in place.
C18_Witness ==
    /\ pc = "build_eu_us_energy"
    /\ Len(energy.rows) >= 1
    /\ before.csv.exists /\ out_csv = before.csv

\* ------------------------------------------------------------- C19
\* C19: a field of a share or consumption column that is no numeral is null
\* in the loaded table, null in the normalized table and empty in the
\* normalized file, and the run is not aborted over it.
C19_MalformedBecomesNull ==
    /\ LoadOk =>
          \A i \in 1..Len(raw_file.lines) : \A c \in NumericCols :
              RawField(i, c) = Malformed => energy.rows[i].data[c] = NaN
    /\ (BuildRan /\ BuildOk) =>
          \A i \in 1..Len(combined.rows) : \A c \in NumericCols :
              combined.rows[i].data[c] # Malformed
    /\ \A i \in 1..Len(out_csv.lines) : \A j \in 3..7 :
          out_csv.lines[i][j] # Malformed
    /\ exc.type \notin {"ValueError", "TypeError"}

\* ------------------------------------------------------------- C20
\* C20: a run that raised the missing-columns error or the unresolved-region
\* error has ended with a status other than 0, and the error lists the
\* absent required columns, or the names looked for of a region that has
\* none of them in the raw table; a run has status 0 only once both
\* outputs are written whole.
C20_ExitStatus ==
    /\ IsMissingColumnsError(exc) =>
          /\ pc = "exited" /\ status # 0 /\ status # -1
          /\ AbsentRequired # {}
          /\ Range(exc.arg) = AbsentRequired
    /\ IsUnresolvedRegionError(exc) =>
          /\ pc = "exited" /\ status # 0 /\ status # -1
          /\ \/ exc.arg = << "European Union (27)", "European Union" >> /\ EUUnresolved
             \/ exc.arg = << "United States" >> /\ USUnresolved
    /\ status = 0 =>
          /\ pc = "exited"
          /\ exc = NoError
          /\ out_csv.exists /\ out_csv.complete
          /\ metadata_json.exists /\ metadata_json.complete
          /\ io = << "read owid-energy-data.csv", "mkdir processed",
                     "write eu_us_energy.csv", "write metadata.json" >>

\* The EU was resolved, the US was not, and the run ended on that error.
C20_Witness ==
    /\ pc = "exited" /\ status = 1
    /\ IsUnresolvedRegionError(exc)
    /\ exc.arg = << "United States" >>
    /\ ~EUUnresolved

\* ------------------------------------------------------------- C21
IOCalls ==
    { "read owid-energy-data.csv", "mkdir processed", "write eu_us_energy.csv",
      "write metadata.json" }

\* C21: within a run each file-system call is made at most once; a run whose
\* raw file could not be read, or whose directory or either output could
\* not be written, has ended on that very OS error with status 1, having
\* made no call after the failed one, with no table in place of the one it
\* could not load and no output touched after the failure.
C21_IOErrorsPropagate ==
    /\ \A op \in IOCalls : Count(io, op) <= 1
    /\ (~raw_file.exists /\ pc # "load_energy") =>
          /\ exc = OSError("read owid-energy-data.csv")
          /\ pc = "exited" /\ status = 1
          /\ energy = NoFrame /\ combined = NoFrame
          /\ io = << "read owid-energy-data.csv" >>
          /\ out_csv = before.csv /\ metadata_json = before.meta
    /\ exc.type = "OSError" =>
          /\ pc = "exited" /\ status = 1
          /\ exc.arg = << >>
          /\ exc.msg = "read owid-energy-data.csv" =>
                io[Len(io)] = "read owid-energy-data.csv"
          /\ exc.msg = "mkdir processed" =>
                /\ io[Len(io)] = "mkdir processed"
                /\ out_csv = before.csv /\ metadata_json = before.meta
          /\ exc.msg \in {"open eu_us_energy.csv", "write eu_us_energy.csv"} =>
                /\ io[Len(io)] = "write eu_us_energy.csv"
                /\ metadata_json = before.meta
          /\ exc.msg = "open eu_us_energy.csv" => out_csv = before.csv
          /\ exc.msg \in {"open metadata.json", "write metadata.json"} =>
                io[Len(io)] = "write metadata.json"
          /\ exc.msg = "open metadata.json" => metadata_json = before.meta
    /\ (out_csv.exists /\ ~out_csv.complete /\ out_csv # before.csv) =>
          exc = OSError("write eu_us_energy.csv")
    /\ (metadata_json.exists /\ ~metadata_json.complete
            /\ metadata_json # before.meta) =>
          exc = OSError("write metadata.json")

\* A run over stale outputs ended on a write of the metadata cut short,
\* after it had written the normalized file whole.
C21_Witness ==
    /\ pc = "exited"
    /\ exc = OSError("write metadata.json")
    /\ before.meta.exists /\ ~metadata_json.complete
    /\ out_csv.complete /\ Len(out_csv.lines) >= 1

\* ------------------------------------------------------------- C22
Earlier(s, a, b) ==
    \E i \in 1..Len(s) : \E j \in 1..Len(s) : i < j /\ s[i] = a /\ s[j] = b

\* C22: a run that has started writing the metadata has before that written
\* the normalized file whole; a run that has started writing the normalized
\* file has before that loaded the raw table and reduced it for both
\* regions; a run that did neither leaves both files as it found them.
C22_WriteOrder ==
    /\ "write metadata.json" \in Range(io) =>
          /\ Earlier(io, "write eu_us_energy.csv", "write metadata.json")
          /\ out_csv.exists /\ out_csv.complete
          /\ Len(out_csv.lines) = Len(combined.rows)
    /\ "write eu_us_energy.csv" \in Range(io) =>
          /\ LoadOk /\ BuildOk
          /\ Earlier(io, "read owid-energy-data.csv", "write eu_us_energy.csv")
          /\ SubSeq(calls, 1, 4) = << "load_energy", "build_eu_us_energy",
                                      "select_region EU", "select_region US" >>
    /\ "write metadata.json" \notin Range(io) => metadata_json = before.meta
    /\ "write eu_us_energy.csv" \notin Range(io) => out_csv = before.csv

\* The metadata of an earlier run was replaced by a run that had replaced
\* the earlier run's table with one of two lines.
C22_Witness ==
    /\ pc = "return"
    /\ before.meta.exists /\ metadata_json # before.meta
    /\ before.csv.exists /\ out_csv # before.csv
    /\ Len(out_csv.lines) = 2

\* ------------------------------------------------------------- C23
IsReducerCall(c) ==
    c \in {"build_eu_us_energy", "select_region EU", "select_region US"}

\* C23: a run over a raw table that lacks a required column has, once load
\* is over, ended on the missing-columns error without a call of the
\* reducer or of a region lookup, whether or not the table has the country
\* column or a line of any alias; every reducer or lookup call is made
\* after load has returned a table that has the seven columns.
C23_ValidationFirst ==
    /\ (raw_file.exists /\ AbsentRequired # {} /\ pc # "load_energy") =>
          /\ pc = "exited" /\ status = 1
          /\ IsMissingColumnsError(exc)
          /\ Range(exc.arg) = AbsentRequired
          /\ calls = << "load_energy" >>
    /\ SelectSeq(calls, IsReducerCall) # << >> =>
          /\ calls[1] = "load_energy"
          /\ ~IsReducerCall(calls[1])
          /\ AbsentRequired = {}
          /\ LoadOk

\* A table that has the country column, a line of no alias and no year
\* column was rejected.
C23_Witness ==
    /\ pc = "exited"
    /\ AbsentRequired = {"year"}
    /\ Len(raw_file.lines) = 1
    /\ EUUnresolved /\ USUnresolved

\* ------------------------------------------------------------- C24
\* C24: the step that reduces the loaded table, whether it returns the
\* normalized table or fails in a lookup or in the insertion of the region
\* column, leaves the loaded table as it was: same columns, same rows, same
\* values, same order; and it leaves the raw file as it was.
C24_InputUnmodified ==
    [][pc = "build_eu_us_energy" => energy' = energy /\ raw_file' = raw_file]_vars

\* The reduction returned a table that starts with an EU27 row while the
\* loaded table still starts with a "United States" row and has no region
\* column.
C24_Witness ==
    /\ pc = "ensure_dirs"
    /\ Len(energy.rows) = 2
    /\ energy.rows[1].data["country"] = "United States"
    /\ "region" \notin Range(energy.columns)
    /\ combined.rows[1].data["region"] = "EU27"

\* ------------------------------------------------------------- C25
IsGet(e) == e[1] = "get"
IsWritten(e) == e[1] = "written"
IsFailed(e) == e[1] = "failed"
Urls(log) == [k \in 1..Len(SelectSeq(log, IsGet)) |-> SelectSeq(log, IsGet)[k][2]]

EnergyUrl == "https://raw.githubusercontent.com/owid/energy-data/master/owid-energy-data.csv"
Co2Url == "https://raw.githubusercontent.com/owid/co2-data/master/owid-co2-data.csv"

\* C25: the URLs are requested in the order energy, co2, each at most
\* once; the download has status 0 exactly when it has ended with both
\* files written, energy first; a failed download is the last thing a run
\* did, the run has ended with status 1, and the energy file written before
\* a failure of the co2 download is still whole.
C25_DownloadSequencing ==
    /\ Urls(dl_log) \in { << >>, << EnergyUrl >>, << EnergyUrl, Co2Url >> }
    /\ dl_status = 0 <=>
          /\ dl_pc = "exited"
          /\ SelectSeq(dl_log, IsWritten) =
                << << "written", "owid-energy-data.csv" >>,
                   << "written", "owid-co2-data.csv" >> >>
          /\ SelectSeq(dl_log, IsFailed) = << >>
    /\ SelectSeq(dl_log, IsFailed) # << >> =>
          /\ dl_pc = "exited" /\ dl_status = 1
          /\ Len(SelectSeq(dl_log, IsFailed)) = 1
          /\ IsFailed(dl_log[Len(dl_log)])
          /\ dl_log[Len(dl_log)][2] = Urls(dl_log)[Len(Urls(dl_log))]
    /\ << "written", "owid-energy-data.csv" >> \in Range(dl_log) =>
          /\ raw_file.exists /\ raw_file.complete
          /\ raw_file \in Snapshots(1) \cup { ErrorPage }
    /\ (dl_pc = "exited" /\ dl_status # 0) => dl_status = 1

\* The energy dataset was written over an earlier copy, then the co2
\* download was refused with a server error and the run ended with 1, the
\* earlier co2 copy still in place.
C25_Witness ==
    /\ dl_pc = "exited" /\ dl_status = 1
    /\ << "written", "owid-energy-data.csv" >> \in Range(dl_log)
    /\ dl_log[Len(dl_log)] = << "failed", Co2Url, "HTTPError: Server Error" >>
    /\ raw_file \in Snapshots(1)
    /\ co2_file = EarlierCopy(2)

\* ------------------------------------------------------------- C26
\* The status the latest request of the log was answered with, 0 if none.
LastStatus(log) == SelectSeq(log, IsGet)[Len(SelectSeq(log, IsGet))][3]

\* C26: in a turn of the download loop, a request that got no answer or
\* was answered with an error status (4xx, 5xx) leaves both files in
\* data/raw exactly as they were and writes none; a file is written only in
\* a turn whose request was answered with a status that is no error status.
C26_NoWriteOnError ==
    [][(dl_pc = "loop" /\ dl_log' # dl_log) =>
          /\ (LastStatus(dl_log') = 0 \/ LastStatus(dl_log') >= 400) =>
                /\ raw_file' = raw_file
                /\ co2_file' = co2_file
                /\ SelectSeq(dl_log', IsWritten) = SelectSeq(dl_log, IsWritten)
                /\ IsFailed(dl_log'[Len(dl_log')])
          /\ (raw_file' # raw_file \/ co2_file' # co2_file
                \/ SelectSeq(dl_log', IsWritten) # SelectSeq(dl_log, IsWritten)) =>
                LastStatus(dl_log') \in 1..399]_vars

\* The energy download was answered 404 with an error page as body, and
\* the earlier copy of the energy file is still the file.
C26_Witness ==
    /\ dl_log = << << "get", EnergyUrl, 404 >>,
                   << "failed", EnergyUrl, "HTTPError: Client Error" >> >>
    /\ raw_file = EarlierCopy(1)
    /\ dl_pc = "exited"

\* ------------------------------------------------------------- C27
Labels(df) == { df.rows[i].data["region"] : i \in 1..Len(df.rows) }

\* C27: the rows an analysis script has derived are the raw rows whose
\* country is exactly "European Union (27)" or "United States", in raw
\* order; the former are labelled "EU27", the latter keep "United States";
\* no "European Union" row is among them, so that without "European Union
\* (27)" rows there is no EU27 row; and where the pipeline has built the
\* normalized table over the same raw file, whose labels are EU27 and US,
\* the script's labels are not those.
C27_RegionsDiffer ==
    eu_us_data.ok =>
        LET rows == eu_us_data.df.rows
        IN /\ "region" \in Range(eu_us_data.df.columns)
           /\ "country" \notin Range(eu_us_data.df.columns)
           /\ { rows[i].index + 1 : i \in 1..Len(rows) } =
                 RawLinesOf("European Union (27)") \cup RawLinesOf("United States")
           /\ \A i \in 1..Len(rows) : \A j \in 1..Len(rows) :
                 i < j => rows[i].index < rows[j].index
           /\ \A i \in 1..Len(rows) :
                 rows[i].data["region"] =
                    IF RawField(rows[i].index + 1, "country") = "United States"
                    THEN "United States" ELSE "EU27"
           /\ "European Union (27)" \notin RawCountries =>
                 "EU27" \notin Labels(eu_us_data.df)
           /\ (BuildRan /\ BuildOk) =>
                 /\ Labels(combined) = {"EU27", "US"}
                 /\ Labels(eu_us_data.df) # Labels(combined)
                 /\ "US" \notin Labels(eu_us_data.df)

\* Over a raw file whose only EU lines are "European Union" lines the
\* pipeline built a table with EU27 and US rows, and an analysis script
\* derived rows labelled "United States" only.
C27_Witness ==
    /\ eu_us_data.ok
    /\ BuildRan /\ BuildOk
    /\ "European Union" \in RawCountries
    /\ Labels(eu_us_data.df) = {"United States"}
    /\ Labels(combined) = {"EU27", "US"}

\* ------------------------------------------------------------- C28
\* load_data fails: a file is absent or has no year column.
Unloadable(file) == ~file.exists \/ "year" \notin Range(file.header)

IsPrefix(s, t) == Len(s) <= Len(t) /\ s = SubSeq(t, 1, Len(s))

\* C28: once load_data is over, generate_reports has returned False, with
\* nothing written under reports/, if the processed or the raw file could
\* not be loaded, and has returned False in no other case; what has been
\* written under reports/ is a start of: the four charts, the English
\* report, the Turkish report; and True has been returned only with all six
\* written.
C28_ReportOrder ==
    /\ (rep_pc # "load_data" /\ (Unloadable(out_csv) \/ Unloadable(raw_file))) =>
          /\ rep_result = "False"
          /\ rep_pc = "exited"
          /\ reports_dir.files = << >>
    /\ rep_result = "False" => (Unloadable(out_csv) \/ Unloadable(raw_file))
    /\ IsPrefix(reports_dir.files,
                << "nuclear_trends_report.png", "renewables_trends_report.png",
                   "gas_trends_report.png", "energy_mix_2024_report.png",
                   "detailed_energy_analysis_report_en.pdf",
                   "detailed_energy_analysis_report_tr.pdf" >>)
    /\ rep_result = "True" =>
          /\ rep_pc = "exited"
          /\ Len(reports_dir.files) = 6
    /\ rep_pc \in {"return"} => Len(reports_dir.files) = 6

\* The processed file was loaded, the raw file has no year column, and
\* generate_reports returned False with reports/ in place and empty.
C28_Witness ==
    /\ rep_result = "False"
    /\ rep_loaded.df /\ ~rep_loaded.raw_df
    /\ raw_file.exists
    /\ reports_dir.exists /\ reports_dir.files = << >>

====
